---- MODULE Spec2Model ----
(***************************************************************************)
(* CargoWatch: drive enumeration over UDisks2 (udisks.rs), disk space      *)
(* statistics (space.rs), per-drive alert configuration (config.rs) and    *)
(* the applet's refresh / alert-cooldown cycle (applet.rs).                *)
(*                                                                         *)
(* Strings are sequences of one-character strings, so that prefix tests,   *)
(* NUL stripping and path splitting are computed and not assumed.          *)
(*                                                                         *)
(* Left out: the popup and panel widgets (popup, panel_drives,             *)
(* TogglePanelDrive, OpenFileManager), poll_interval and saving the        *)
(* configuration; none of them reads or writes the drive list or the       *)
(* alert states.                                                           *)
(***************************************************************************)
EXTENDS Integers, Sequences, FiniteSets, TLC

VARIABLES
    config,        \* CargoWatch.config
    drives,        \* CargoWatch.drives : Seq(DriveStatus)
    alert_states,  \* CargoWatch.alert_states : mount path -> AlertState (or absent)
    now,           \* the monotonic clock (Instant::now), in seconds
    tick,          \* the latest message: its inputs and what its handler did
    track,         \* per mount path: when it last alerted and what was seen since
    lastGood,      \* the drive list the last successful refresh produced
    catalog,       \* the managed-object catalog given to enumerate_drives
    enumerated,    \* the result of enumerate_drives on catalog
    ddIn,          \* the list given to deduplicate_by_device
    ddOut,         \* the list deduplicate_by_device left
    ddAgain,       \* the list deduplicate_by_device left when given ddOut
    nameIn,        \* the DriveInfo display_name is called on
    nameOut,       \* the string display_name returned
    statIn,        \* what statvfs answered to get_space_info
    spaceOut       \* the SpaceInfo get_space_info returned, with its percent_used

vars == <<config, drives, alert_states, now, tick, track, lastGood,
          catalog, enumerated, ddIn, ddOut, ddAgain, nameIn, nameOut, statIn, spaceOut>>

appVars == <<config, drives, alert_states, now, tick, track, lastGood>>
enumVars == <<catalog, enumerated>>
ddVars == <<ddIn, ddOut, ddAgain>>
nameVars == <<nameIn, nameOut>>
spaceVars == <<statIn, spaceOut>>

(***************************************************************************)
(* Bounds of the model.                                                    *)
(***************************************************************************)
MaxObjects == 2      \* objects in one catalog (SpecEnum)
MaxLen == 4          \* entries in a list given to deduplicate_by_device (SpecDedup)
MaxTime == 3         \* the clock stops advancing here
MaxBlocks == 40      \* blocks of a filesystem given to get_space_info (SpecSpace)

(***************************************************************************)
(* Strings, bytes and options.                                             *)
(***************************************************************************)
NUL == "NUL"         \* the byte 0
BAD == "xFF"         \* a byte that is not valid UTF-8
NonU8 == "!u8"       \* an array element that is not a Value::U8

None == [some |-> FALSE, val |-> <<>>]
Some(s) == [some |-> TRUE, val |-> s]

\* str::starts_with
StartsWith(s, p) == Len(s) >= Len(p) /\ SubSeq(s, 1, Len(p)) = p

\* the U8 elements of a D-Bus array, in order (filter_map over Value::U8)
U8Bytes(arr) == SelectSeq(arr, LAMBDA b : b # NonU8)

\* "Remove null terminator if present": at most one trailing NUL is removed
StripNul(bytes) ==
    IF Len(bytes) > 0 /\ bytes[Len(bytes)] = NUL
    THEN SubSeq(bytes, 1, Len(bytes) - 1)
    ELSE bytes

\* String::from_utf8: rejects a sequence holding an invalid byte
FromUtf8(bytes) ==
    IF \E i \in 1..Len(bytes) : bytes[i] = BAD
    THEN [ok |-> FALSE, val |-> <<>>]
    ELSE [ok |-> TRUE, val |-> bytes]

(***************************************************************************)
(* udisks.rs                                                               *)
(***************************************************************************)
EXCLUDED_FS_TYPES ==
    { <<"t","m","p","f","s">>,
      <<"d","e","v","t","m","p","f","s">>,
      <<"s","q","u","a","s","h","f","s">>,
      <<"o","v","e","r","l","a","y">>,
      <<"f","u","s","e",".","p","o","r","t","a","l">>,
      <<"f","u","s","e",".","g","v","f","s","d","-","f","u","s","e">>,
      <<"a","u","t","o","f","s">>,
      <<"p","r","o","c">>,
      <<"s","y","s","f","s">>,
      <<"d","e","v","p","t","s">>,
      <<"c","g","r","o","u","p">>,
      <<"c","g","r","o","u","p","2">>,
      <<"s","e","c","u","r","i","t","y","f","s">>,
      <<"p","s","t","o","r","e">>,
      <<"e","f","i","v","a","r","f","s">>,
      <<"b","p","f">>,
      <<"f","u","s","e","c","t","l">>,
      <<"c","o","n","f","i","g","f","s">>,
      <<"d","e","b","u","g","f","s">>,
      <<"t","r","a","c","e","f","s">>,
      <<"h","u","g","e","t","l","b","f","s">>,
      <<"m","q","u","e","u","e">>,
      <<"r","a","m","f","s">> }

\* get_mount_points: MountPoints is an array of byte arrays; an absent
\* property or a value that is no array gives the empty list; an item that
\* is no array is passed over; each byte array is NUL-stripped and decoded,
\* and dropped when it is not UTF-8.
RECURSIVE DecodePoints(_)
DecodePoints(items) ==
    IF items = <<>> THEN <<>>
    ELSE LET item == Head(items)
             dec == FromUtf8(StripNul(U8Bytes(item.bytes)))
         IN (IF item.isArray /\ dec.ok THEN <<dec.val>> ELSE <<>>)
            \o DecodePoints(Tail(items))

get_mount_points(fs_props) ==
    IF fs_props.kind = "Array" THEN DecodePoints(fs_props.items) ELSE <<>>

\* get_string_prop: the Device key is read as a byte array when it is one;
\* anything else must be a string.
get_string_prop(prop, key) ==
    IF prop.kind = "Missing" THEN [ok |-> FALSE, val |-> <<>>]
    ELSE IF key = "Device" /\ prop.kind = "Bytes"
         THEN FromUtf8(StripNul(U8Bytes(prop.val)))
    ELSE IF prop.kind = "Str" THEN [ok |-> TRUE, val |-> prop.val]
    ELSE [ok |-> FALSE, val |-> <<>>]

get_object_path_prop(prop) ==
    IF prop.kind = "ObjPath" THEN [ok |-> TRUE, val |-> prop.val]
    ELSE [ok |-> FALSE, val |-> <<>>]

\* get_drive_info: (model, removable) of the referenced drive object.
get_drive_info(objects, drive_path) ==
    LET found == {i \in 1..Len(objects) : objects[i].id = drive_path} IN
    IF found = {} THEN [ok |-> FALSE, model |-> None, removable |-> FALSE]
    ELSE LET o == objects[CHOOSE i \in found : TRUE] IN
         IF ~o.drive THEN [ok |-> FALSE, model |-> None, removable |-> FALSE]
         ELSE [ok |-> TRUE,
               model |-> IF o.Model.kind = "Str" /\ o.Model.val # <<>>
                         THEN Some(o.Model.val) ELSE None,
               removable |-> o.Removable.kind = "Bool" /\ o.Removable.val = <<"true">>]

\* IsPrimary with /home compared for equality instead of as a prefix
IsPrimaryExact(path) == path = <<"/">> \/ path = <<"/","h","o","m","e">>

IsPrimary(path) == path = <<"/">> \/ StartsWith(path, <<"/","h","o","m","e">>)

\* deduplicate_by_device, first pass: the devices that have / or /home
RECURSIVE DevicesWithPrimary(_)
DevicesWithPrimary(ds) ==
    IF ds = <<>> THEN {}
    ELSE (IF IsPrimary(Head(ds).mount_point) THEN {Head(ds).device} ELSE {})
         \cup DevicesWithPrimary(Tail(ds))

\* Retained with the sense of the predicate inverted (what is to be removed)
RetainedInverted(drive, devices_with_primary) ==
    IF IsPrimary(drive.mount_point) THEN FALSE
    ELSE IF drive.device \in devices_with_primary THEN TRUE
    ELSE FALSE

\* deduplicate_by_device, second pass: the predicate of retain
Retained(drive, devices_with_primary) ==
    IF IsPrimary(drive.mount_point) THEN TRUE
    ELSE IF drive.device \in devices_with_primary THEN FALSE
    ELSE TRUE

RECURSIVE Retain(_, _)
Retain(ds, devices_with_primary) ==
    IF ds = <<>> THEN <<>>
    ELSE (IF Retained(Head(ds), devices_with_primary) THEN <<Head(ds)>> ELSE <<>>)
         \o Retain(Tail(ds), devices_with_primary)

deduplicate_by_device(ds) == Retain(ds, DevicesWithPrimary(ds))

\* IsExcluded matching an excluded name as a prefix of the type
IsExcludedByPrefix(fs_type) ==
    \E excluded \in EXCLUDED_FS_TYPES : StartsWith(fs_type, excluded)

\* EXCLUDED_FS_TYPES.iter().any(|&excluded| fs_type == excluded)
IsExcluded(fs_type) == \E excluded \in EXCLUDED_FS_TYPES : fs_type = excluded

\* One DriveInfo per mount point of an object.
RECURSIVE PushMounts(_, _, _, _, _, _)
PushMounts(mount_points, label, device, fs_type, model, removable) ==
    IF mount_points = <<>> THEN <<>>
    ELSE << [mount_point |-> Head(mount_points), label |-> label, device |-> device,
             fs_type |-> fs_type, model |-> model, removable |-> removable] >>
         \o PushMounts(Tail(mount_points), label, device, fs_type, model, removable)

\* What the loop body of enumerate_drives does with one object:
\* "skip" (continue), "fail" (the ? on Device returns the error) or "push".
EnumObject(objects, o) ==
    LET mount_points == get_mount_points(o.MountPoints)
        device == get_string_prop(o.Device, "Device")
        labelR == get_string_prop(o.IdLabel, "IdLabel")
        label == IF labelR.ok THEN Some(labelR.val) ELSE None
        typeR == get_string_prop(o.IdType, "IdType")
        fs_type == IF typeR.ok THEN typeR.val ELSE <<>>
        drive_path == get_object_path_prop(o.Drive)
        info == IF drive_path.ok
                THEN get_drive_info(objects, drive_path.val)
                ELSE [ok |-> FALSE, model |-> None, removable |-> FALSE]
    IN IF ~o.fs THEN [step |-> "skip", drives |-> <<>>]
       ELSE IF mount_points = <<>> THEN [step |-> "skip", drives |-> <<>>]
       ELSE IF ~o.block THEN [step |-> "skip", drives |-> <<>>]
       ELSE IF ~device.ok THEN [step |-> "fail", drives |-> <<>>]
       ELSE IF IsExcluded(fs_type) THEN [step |-> "skip", drives |-> <<>>]
       ELSE [step |-> "push",
             drives |-> PushMounts(mount_points, label, device.val, fs_type,
                                   info.model, info.removable)]

RECURSIVE EnumLoop(_, _, _)
EnumLoop(objects, i, acc) ==
    IF i > Len(objects) THEN [ok |-> TRUE, drives |-> acc]
    ELSE LET r == EnumObject(objects, objects[i]) IN
         IF r.step = "fail" THEN [ok |-> FALSE, drives |-> <<>>]
         ELSE EnumLoop(objects, i + 1, acc \o r.drives)

\* enumerate_drives: cat.ok is whether the connection and GetManagedObjects
\* succeeded; cat.objects are the objects in HashMap iteration order.
enumerate_drives(cat) ==
    IF ~cat.ok THEN [ok |-> FALSE, drives |-> <<>>]
    ELSE LET r == EnumLoop(cat.objects, 1, <<>>) IN
         IF r.ok THEN [ok |-> TRUE, drives |-> deduplicate_by_device(r.drives)]
         ELSE r

\* DriveInfo::display_name.  mount_point.to_str() is None when the path is
\* not UTF-8, and only then is the device returned; a mount point that
\* enumerate_drives decoded is always UTF-8.  rsplit('/').next() is the text
\* after the last '/', the whole path when it has none.
RECURSIVE LastSegment(_)
LastSegment(path) ==
    IF path = <<>> THEN <<>>
    ELSE IF path[Len(path)] = "/" THEN <<>>
    ELSE LastSegment(SubSeq(path, 1, Len(path) - 1)) \o <<path[Len(path)]>>

\* display_name taking any label that is present, empty or not
display_name_AnyLabel(info) ==
    IF info.label.some THEN info.label.val
    ELSE IF ~FromUtf8(info.mount_point).ok THEN info.device
    ELSE IF info.mount_point = <<"/">> THEN <<"/">>
    ELSE IF StartsWith(info.mount_point, <<"/","h","o","m","e">>) THEN <<"~">>
    ELSE LastSegment(info.mount_point)

display_name(info) ==
    LET to_str == FromUtf8(info.mount_point) IN
    IF info.label.some /\ info.label.val # <<>> THEN info.label.val
    ELSE IF to_str.ok /\ to_str.val = <<"/">> THEN <<"/">>
    ELSE IF to_str.ok /\ StartsWith(to_str.val, <<"/","h","o","m","e">>) THEN <<"~">>
    ELSE IF to_str.ok THEN LastSegment(to_str.val)
    ELSE info.device

(***************************************************************************)
(* The managed objects UDisks2 can report: property values by their D-Bus  *)
(* shape, and a pool of objects covering each shape enumerate_drives       *)
(* distinguishes.                                                          *)
(***************************************************************************)
Missing == [kind |-> "Missing", val |-> <<>>]
Str(s) == [kind |-> "Str", val |-> s]
Bytes(b) == [kind |-> "Bytes", val |-> b]
Bool(b) == [kind |-> "Bool", val |-> IF b THEN <<"true">> ELSE <<"false">>]
ObjPath(p) == [kind |-> "ObjPath", val |-> p]

NoMountPoints == [kind |-> "Missing", items |-> <<>>]
MountPoints(items) == [kind |-> "Array", items |-> items]
Point(bytes) == [isArray |-> TRUE, bytes |-> bytes]

P_root == <<"/">>
P_home == <<"/","h","o","m","e">>
P_homex == <<"/","h","o","m","e","x">>
P_var == <<"/","v","a","r">>
P_mnt == <<"/","m","n","t","/","x">>
P_run == <<"/","r","u","n">>

D_A == <<"/","d","e","v","/","a">>
D_B == <<"/","d","e","v","/","b">>
D_C == <<"/","d","e","v","/","c">>

T_ext4 == <<"e","x","t","4">>
T_tmpfs == <<"t","m","p","f","s">>
T_tmpfsx == <<"t","m","p","f","s","x">>

L_data == <<"d","a","t","a">>
Drv1 == <<"d","r","v","1">>
Drv2 == <<"d","r","v","2">>

Block(id, mps, device, label, type, drive) ==
    [id |-> id, fs |-> TRUE, MountPoints |-> mps, block |-> TRUE, Device |-> device,
     IdLabel |-> label, IdType |-> type, Drive |-> drive,
     drive |-> FALSE, Model |-> Missing, Removable |-> Missing]

DriveObj(id, model, removable) ==
    [id |-> id, fs |-> FALSE, MountPoints |-> NoMountPoints, block |-> FALSE,
     Device |-> Missing, IdLabel |-> Missing, IdType |-> Missing, Drive |-> Missing,
     drive |-> TRUE, Model |-> model, Removable |-> removable]

ObjectPool ==
    << \* 1: / on device a, empty label, a fixed drive
       Block(<<"o1">>, MountPoints(<<Point(P_root \o <<NUL>>)>>),
             Bytes(D_A \o <<NUL>>), Str(<<>>), Str(T_ext4), ObjPath(Drv2)),
       \* 2: /, /home and /var on device a (subvolumes of one filesystem)
       Block(<<"o2">>, MountPoints(<<Point(P_root \o <<NUL>>), Point(P_home \o <<NUL>>),
                                     Point(P_var \o <<NUL>>)>>),
             Bytes(D_A \o <<NUL>>), Missing, Str(T_ext4), Missing),
       \* 3: /mnt/x on device b, labelled, on a removable drive
       Block(<<"o3">>, MountPoints(<<Point(P_mnt \o <<NUL>>)>>),
             Bytes(D_B \o <<NUL>>), Str(L_data), Str(T_ext4), ObjPath(Drv1)),
       \* 4: /mnt/x on device c (a second device mounted over the same path)
       Block(<<"o4">>, MountPoints(<<Point(P_mnt \o <<NUL>>)>>),
             Bytes(D_C), Missing, Missing, Missing),
       \* 5: the same mount point listed twice
       Block(<<"o5">>, MountPoints(<<Point(P_mnt \o <<NUL>>), Point(P_mnt)>>),
             Bytes(D_B \o <<NUL>>), Missing, Str(T_ext4), Missing),
       \* 6: a tmpfs
       Block(<<"o6">>, MountPoints(<<Point(P_run \o <<NUL>>)>>),
             Bytes(D_C \o <<NUL>>), Missing, Str(T_tmpfs), Missing),
       \* 7: a type that only starts with an excluded name
       Block(<<"o7">>, MountPoints(<<Point(P_run \o <<NUL>>)>>),
             Bytes(D_C \o <<NUL>>), Missing, Str(T_tmpfsx), Missing),
       \* 8: mounted, block interface present, Device missing
       Block(<<"o8">>, MountPoints(<<Point(P_var \o <<NUL>>)>>),
             Missing, Missing, Str(T_ext4), Missing),
       \* 9: Device is a byte array that is not UTF-8
       Block(<<"o9">>, MountPoints(<<Point(P_var \o <<NUL>>)>>),
             Bytes(<<"/", BAD, NUL>>), Missing, Str(T_ext4), Missing),
       \* 10: Device given as a plain string; IdType and Drive of the wrong shape
       Block(<<"o10">>, MountPoints(<<Point(P_var \o <<NUL>>)>>),
             Str(D_B), Bool(TRUE), Bool(FALSE), Str(Drv1)),
       \* 11: one undecodable mount point, one array item that is no byte
       \*     array, one good mount point holding a non-byte element
       Block(<<"o11">>, MountPoints(<<Point(<<"/", BAD, NUL>>),
                                      [isArray |-> FALSE, bytes |-> <<>>],
                                      Point(<<"/","h","o","m","e",NonU8,"x",NUL>>)>>),
             Bytes(D_B \o <<NUL>>), Missing, Str(T_ext4), ObjPath(<<"gone">>)),
       \* 12: filesystem interface without mount points
       Block(<<"o12">>, NoMountPoints, Bytes(D_C \o <<NUL>>), Missing, Str(T_ext4), Missing),
       \* 13: filesystem interface without a block interface
       [Block(<<"o13">>, MountPoints(<<Point(P_var \o <<NUL>>)>>),
              Missing, Missing, Missing, Missing) EXCEPT !.block = FALSE],
       \* 14, 15: drive objects
       DriveObj(Drv1, Str(<<"M">>), Bool(TRUE)),
       DriveObj(Drv2, Str(<<>>), Bool(FALSE)),
       \* 16: a tmpfs mounted at /home, labelled, on a removable drive
       Block(<<"o16">>, MountPoints(<<Point(P_home \o <<NUL>>)>>),
             Bytes(D_B \o <<NUL>>), Str(L_data), Str(T_tmpfs), ObjPath(Drv1)) >>

\* Sequences of at most n distinct indices into the pool (an iteration
\* order of a HashMap holding those objects).
IndexSeqs(n) ==
    { s \in UNION {[1..m -> 1..Len(ObjectPool)] : m \in 0..n} :
        \A a, b \in 1..Len(s) : a # b => s[a] # s[b] }

ObjectsAt(s) == [k \in 1..Len(s) |-> ObjectPool[s[k]]]

\* A catalog is named by the pool indices of its objects, in iteration
\* order; ok is whether the connection and GetManagedObjects succeeded.
ConnectionError == [ok |-> FALSE, ids |-> <<>>]
Catalog(ids) == [ok |-> TRUE, ids |-> ids]
Objects(cat) == ObjectsAt(cat.ids)

NotRun == [ran |-> FALSE, ok |-> FALSE, drives |-> <<>>]
Ran(r) == [ran |-> TRUE, ok |-> r.ok, drives |-> r.drives]

(***************************************************************************)
(* The lists deduplicate_by_device is applied to.                          *)
(***************************************************************************)
Info(path, device) ==
    [mount_point |-> path, label |-> None, device |-> device,
     fs_type |-> T_ext4, model |-> None, removable |-> FALSE]

DedupPaths == {P_root, P_home, P_homex, P_var, P_mnt}
DedupDevices == {D_A, D_B}
DedupInfos == {Info(p, d) : p \in DedupPaths, d \in DedupDevices}

ListsUpTo(S, n) == UNION {[1..m -> S] : m \in 0..n}

(***************************************************************************)
(* space.rs                                                                *)
(***************************************************************************)
\* SpaceInfo::percent_used: ((used as f64 / total as f64) * 100.0).round()
\* as u8, 0 for total 0.  The quotient is rounded to the nearest double and
\* so is its product with 100.0; round() rounds half away from zero.  For
\* the sizes of the model the two roundings move the value by far less than
\* its distance to the nearest k + 1/2, unless the exact percentage is
\* k + 1/2 itself: then used / total is the double nearest to (2k + 1) / 200
\* whatever the sizes, and F64HalfBelow holds the k for which the product of
\* that double with 100.0 is a double below k + 1/2 (for k = 57:
\* 0.575 * 100.0 = 57.49999999999999).
F64HalfBelow == {14, 28, 56, 57}

percent_used(space) ==
    IF space.total = 0 THEN 0
    ELSE LET q == (100 * space.used) \div space.total
             twice_rest == 200 * space.used - 2 * q * space.total
         IN IF twice_rest > space.total THEN q + 1
            ELSE IF twice_rest < space.total THEN q
            ELSE IF q \in F64HalfBelow THEN q
            ELSE q + 1

\* u64::saturating_sub
SaturatingSub(a, b) == IF a >= b THEN a - b ELSE 0

\* get_space_info on the statvfs result of one mount point
get_space_info(res) ==
    IF ~res.ok THEN [ok |-> FALSE, space |-> [total |-> 0, used |-> 0, available |-> 0]]
    ELSE LET block_size == res.stat.block_size
             total == res.stat.blocks * block_size
             available == res.stat.blocks_available * block_size
             free == res.stat.blocks_free * block_size
         IN [ok |-> TRUE,
             space |-> [total |-> total, used |-> SaturatingSub(total, free),
                        available |-> available]]

(***************************************************************************)
(* config.rs                                                               *)
(***************************************************************************)
NoEntry == [present |-> FALSE, enabled |-> FALSE, threshold |-> 0]
Entry(enabled, threshold) ==
    [present |-> TRUE, enabled |-> enabled, threshold |-> threshold]

\* get_drive_alert falling back to DriveAlertConfig::default() (threshold 90)
get_drive_alert_Default(cfg, mount) ==
    IF mount \in DOMAIN cfg.drive_alerts /\ cfg.drive_alerts[mount].present
    THEN [enabled |-> cfg.drive_alerts[mount].enabled,
          threshold |-> cfg.drive_alerts[mount].threshold]
    ELSE [enabled |-> TRUE, threshold |-> 90]

\* Config::get_drive_alert
get_drive_alert(cfg, mount) ==
    IF mount \in DOMAIN cfg.drive_alerts /\ cfg.drive_alerts[mount].present
    THEN [enabled |-> cfg.drive_alerts[mount].enabled,
          threshold |-> cfg.drive_alerts[mount].threshold]
    ELSE [enabled |-> TRUE, threshold |-> cfg.default_alert_threshold]

(***************************************************************************)
(* applet.rs: refresh_drives                                               *)
(***************************************************************************)
\* The normal components of a path (std::path::Path compares by components:
\* repeated and trailing separators and "." components do not count).
RECURSIVE Components(_, _)
Components(path, cur) ==
    IF path = <<>> THEN (IF cur = <<>> \/ cur = <<".">> THEN <<>> ELSE <<cur>>)
    ELSE IF Head(path) = "/"
         THEN (IF cur = <<>> \/ cur = <<".">> THEN <<>> ELSE <<cur>>)
              \o Components(Tail(path), <<>>)
         ELSE Components(Tail(path), Append(cur, Head(path)))

PathEq(a, b) ==
    /\ (a # <<>> /\ a[1] = "/") = (b # <<>> /\ b[1] = "/")
    /\ Components(a, <<>>) = Components(b, <<>>)

\* "Filter to configured drives, or all non-removable if none configured"
Monitored(cfg, d) ==
    IF cfg.monitored_drives = <<>> THEN ~d.removable
    ELSE \E k \in 1..Len(cfg.monitored_drives) :
             PathEq(d.mount_point, cfg.monitored_drives[k])

Filtered(cfg, all_drives) == SelectSeq(all_drives, LAMBDA d : Monitored(cfg, d))

\* ProbeAll giving up at the first statvfs error
RECURSIVE ProbeAllAbort(_, _, _)
ProbeAllAbort(filtered, probes, k) ==
    IF k > Len(filtered) THEN <<>>
    ELSE IF ~probes[k].ok THEN <<>>
    ELSE <<[info |-> filtered[k],
            space |-> [total |-> probes[k].stat.blocks * probes[k].stat.block_size,
                       used |-> (probes[k].stat.blocks - probes[k].stat.blocks_free)
                                * probes[k].stat.block_size,
                       available |-> probes[k].stat.blocks_available
                                     * probes[k].stat.block_size]]>>
         \o ProbeAllAbort(filtered, probes, k + 1)

\* "Get space info for each drive": probes[k] is what statvfs answers for
\* the k-th filtered drive; a failed one is left out.
RECURSIVE ProbeAll(_, _, _)
ProbeAll(filtered, probes, k) ==
    IF k > Len(filtered) THEN <<>>
    ELSE LET r == get_space_info(probes[k]) IN
         (IF r.ok THEN <<[info |-> filtered[k], space |-> r.space]>> ELSE <<>>)
         \o ProbeAll(filtered, probes, k + 1)

\* refresh_drives clearing the list when enumeration fails
refresh_drives_clearing(cfg, old, enum, probes) ==
    IF ~enum.ok THEN <<>>
    ELSE ProbeAll(Filtered(cfg, enum.drives), probes, 1)

\* The drive list refresh_drives leaves, from the list it found.
refresh_drives(cfg, old, enum, probes) ==
    IF ~enum.ok THEN old
    ELSE ProbeAll(Filtered(cfg, enum.drives), probes, 1)

(***************************************************************************)
(* applet.rs: check_alerts                                                 *)
(***************************************************************************)
Absent == [present |-> FALSE, last_alerted |-> 0, was_over_threshold |-> FALSE]

\* Instant::duration_since saturates at zero
DurationSince(later, earlier) == IF later >= earlier THEN later - earlier ELSE 0

\* OverThreshold with a strict comparison
OverThresholdStrict(pct, threshold) == pct > threshold

\* let over_threshold = pct >= alert_config.threshold;
OverThreshold(pct, threshold) == pct >= threshold

\* the AlertState or_insert puts in for a path seen for the first time;
\* t2 is the Instant::now() read at that moment.  (Instant - Duration panics
\* when the result cannot be represented, which takes a cooldown of about
\* 2^63 seconds; the cooldowns of Configs are far from it.)
InitialState(t2, cooldown) ==
    [present |-> TRUE, last_alerted |-> t2 - cooldown - 1, was_over_threshold |-> FALSE]

\* CooldownExpired one second early
CooldownExpiredEarly(t, last_alerted, cooldown) ==
    (IF t >= last_alerted THEN t - last_alerted ELSE 0) + 1 >= cooldown

\* let cooldown_expired = now.duration_since(state.last_alerted) >= cooldown;
CooldownExpired(t, last_alerted, cooldown) ==
    DurationSince(t, last_alerted) >= cooldown

\* ShouldAlert without the crossing clause
ShouldAlertCooldownOnly(over, crossed, cooldown_expired) == over /\ cooldown_expired

\* if over_threshold && (crossed_threshold || cooldown_expired)
ShouldAlert(over, crossed, cooldown_expired) ==
    over /\ (crossed \/ cooldown_expired)

\* state.last_alerted = now, inside the if
LastAlertedAfter(fire, t, last_alerted) == IF fire THEN t ELSE last_alerted

\* WasOverAfter with the assignment moved inside the if
WasOverAfterInsideIf(fire, over, was_over) == IF fire THEN over ELSE was_over

\* state.was_over_threshold = over_threshold, after the if
WasOverAfter(fire, over, was_over) == over

\* Skipped without the enabled test
SkippedNever(alert_config) == FALSE

\* "Skip if alerts disabled for this drive"
Skipped(alert_config) == ~alert_config.enabled

\* One iteration of the loop of check_alerts over drive number i: the new
\* alert state of its path, whether it alerts, and what it saw.
AlertEval(cfg, drive, i, states, t, t2) ==
    LET path == drive.info.mount_point
        alert_config == get_drive_alert(cfg, path)
        pct == percent_used(drive.space)
        over == OverThreshold(pct, alert_config.threshold)
        state == IF states[path].present THEN states[path]
                 ELSE InitialState(t2, cfg.alert_cooldown)
        crossed == over /\ ~state.was_over_threshold
        expired == CooldownExpired(t, state.last_alerted, cfg.alert_cooldown)
        fire == ShouldAlert(over, crossed, expired)
        after == [present |-> TRUE,
                  last_alerted |-> LastAlertedAfter(fire, t, state.last_alerted),
                  was_over_threshold |-> WasOverAfter(fire, over, state.was_over_threshold)]
    IN [fire |-> fire, after |-> after,
        saw |-> [idx |-> i, path |-> path, pct |-> pct,
                 threshold |-> alert_config.threshold,
                 existed |-> states[path].present,
                 was_before |-> state.was_over_threshold,
                 last_before |-> state.last_alerted,
                 fired |-> fire,
                 was_after |-> after.was_over_threshold,
                 last_after |-> after.last_alerted]]

\* The loop of check_alerts from drive i on; skew[i] is how much later than
\* `now` the Instant::now() of or_insert is read.
RECURSIVE CheckLoop(_, _, _, _, _, _, _, _)
CheckLoop(cfg, ds, i, states, alerts, evals, t, skew) ==
    IF i > Len(ds) THEN [states |-> states, alerts |-> alerts, evals |-> evals]
    ELSE IF Skipped(get_drive_alert(cfg, ds[i].info.mount_point))
         THEN CheckLoop(cfg, ds, i + 1, states, alerts, evals, t, skew)
    ELSE LET e == AlertEval(cfg, ds[i], i, states, t, t + skew) IN
         CheckLoop(cfg, ds, i + 1,
                   [states EXCEPT ![ds[i].info.mount_point] = e.after],
                   IF e.fire
                   THEN Append(alerts, [name |-> display_name(ds[i].info), pct |-> e.saw.pct])
                   ELSE alerts,
                   Append(evals, e.saw), t, skew)

check_alerts(cfg, ds, states, t, skew) ==
    CheckLoop(cfg, ds, 1, states, <<>>, <<>>, t, skew)

\* send_alert: Notification::show() succeeds or fails (ok); a failure is
\* written to stderr and nothing else happens.  The record is what the
\* notifier was given, with the alert states as they were at the call.
send_alert(name, pct, ok, states) ==
    [name |-> name, pct |-> pct, ok |-> ok, states |-> states]

\* SendAll giving up at the first delivery that fails
RECURSIVE SendAllStopAtFailure(_, _, _, _)
SendAllStopAtFailure(alerts_to_send, outcomes, k, states) ==
    IF k > Len(alerts_to_send) THEN [states |-> states, log |-> <<>>]
    ELSE IF ~outcomes[k]
    THEN [states |-> states,
          log |-> <<send_alert(alerts_to_send[k].name, alerts_to_send[k].pct,
                               outcomes[k], states)>>]
    ELSE LET rest == SendAllStopAtFailure(alerts_to_send, outcomes, k + 1, states) IN
         [states |-> rest.states,
          log |-> <<send_alert(alerts_to_send[k].name, alerts_to_send[k].pct,
                               outcomes[k], states)>> \o rest.log]

\* for (name, pct) in alerts_to_send { Self::send_alert(&name, pct); }
\* outcomes[k] is whether the k-th delivery succeeds.
RECURSIVE SendAll(_, _, _, _)
SendAll(alerts_to_send, outcomes, k, states) ==
    IF k > Len(alerts_to_send) THEN [states |-> states, log |-> <<>>]
    ELSE LET rest == SendAll(alerts_to_send, outcomes, k + 1, states) IN
         [states |-> rest.states,
          log |-> <<send_alert(alerts_to_send[k].name, alerts_to_send[k].pct,
                               outcomes[k], states)>> \o rest.log]

(***************************************************************************)
(* The applet: inputs, initial state and message handlers.                 *)
(***************************************************************************)
AppPaths == {P_root, P_mnt}

\* seconds from one tick to the next, and from the Instant::now() that
\* check_alerts starts with to the one or_insert reads
Steps == {1, 2}
Skews == {0, 1}
EditPaths == {P_mnt}
Thresholds == {50, 90}

Statvfs(block_size, blocks, bfree, bavail) ==
    [ok |-> TRUE, stat |-> [block_size |-> block_size, blocks |-> blocks,
                            blocks_free |-> bfree, blocks_available |-> bavail]]
StatvfsError ==
    [ok |-> FALSE, stat |-> [block_size |-> 0, blocks |-> 0,
                             blocks_free |-> 0, blocks_available |-> 0]]

\* what statvfs can answer for a mount point: an error, 50 % used, 90 % used
ProbeResults == {StatvfsError, Statvfs(2, 10, 5, 4), Statvfs(2, 10, 1, 0)}

\* the catalogs a refresh can meet
TickCatalogs ==
    { ConnectionError,
      Catalog((<<1, 4>>)),
      Catalog((<<4, 3, 14>>)),
      Catalog((<<1, 8>>)) }

\* what enumerate_drives makes of them
TickEnums ==
    {[enum |-> enumerate_drives([ok |-> c.ok, objects |-> Objects(c)])] :
        c \in TickCatalogs}

\* Config::default() with the cooldown scaled to the clock of the model, and
\* two configurations a user can have stored
Configs ==
    { [default_alert_threshold |-> 90, alert_cooldown |-> 2, monitored_drives |-> <<>>,
       drive_alerts |-> [p \in AppPaths |-> NoEntry]],
      [default_alert_threshold |-> 50, alert_cooldown |-> 0,
       monitored_drives |-> <<P_mnt \o <<"/">>>>,
       drive_alerts |-> [p \in AppPaths |-> IF p = P_root THEN Entry(FALSE, 90) ELSE NoEntry]] }

NoTrack == [fired |-> FALSE, at |-> 0, steady |-> TRUE, cd |-> 0]

\* The evaluations of a tick at time t, taken in order: a path that alerts
\* starts afresh, and when it had alerted before, the two successive alerts
\* are noted in pairs with whether every evaluation of the path between them
\* found it over threshold under the same cooldown.
RECURSIVE TrackFold(_, _, _, _, _, _)
TrackFold(tr, pairs, evals, k, t, cooldown) ==
    IF k > Len(evals) THEN [track |-> tr, pairs |-> pairs]
    ELSE LET e == evals[k]
             was == tr[e.path]
         IN IF e.fired
            THEN TrackFold([tr EXCEPT ![e.path] = [fired |-> TRUE, at |-> t,
                                                   steady |-> TRUE, cd |-> cooldown]],
                           IF was.fired
                           THEN Append(pairs, [path |-> e.path, t1 |-> was.at, t2 |-> t,
                                               steady |-> was.steady /\ was.cd = cooldown,
                                               cooldown |-> cooldown])
                           ELSE pairs,
                           evals, k + 1, t, cooldown)
            ELSE TrackFold(IF was.fired
                           THEN [tr EXCEPT ![e.path].steady =
                                    @ /\ e.pct >= e.threshold /\ was.cd = cooldown]
                           ELSE tr,
                           pairs, evals, k + 1, t, cooldown)

NoMessage == [msg |-> "none", enum |-> [ok |-> FALSE, drives |-> <<>>], probes |-> <<>>, evals |-> <<>>, alerts |-> <<>>,
              sent |-> <<>>, pairs |-> <<>>]

\* Application::init: the configuration is loaded, the drive list is empty,
\* there is no alert state, and refresh_drives runs once.
AppInit ==
    /\ config \in Configs
    /\ alert_states = [p \in AppPaths |-> Absent]
    /\ now = 0
    /\ track = [p \in AppPaths |-> NoTrack]
    /\ \E ce \in TickEnums :
       \E filtered \in {IF ce.enum.ok THEN Filtered(config, ce.enum.drives) ELSE <<>>} :
       \E probes \in [1..Len(filtered) -> ProbeResults] :
         /\ drives = refresh_drives(config, <<>>, ce.enum, probes)
         /\ lastGood = drives
         /\ tick = [NoMessage EXCEPT !.msg = "init", !.enum = ce.enum, !.probes = probes]

\* The Instant::now() that or_insert reads only counts when some drive of
\* the list has no alert state yet.
SkewsFor(ds, states) ==
    IF \E i \in 1..Len(ds) : ~states[ds[i].info.mount_point].present
    THEN Skews ELSE {0}

\* Message::Tick: refresh_drives, then check_alerts, which ends with the
\* delivery of the alerts it collected
Tick ==
    \E dt \in Steps, ce \in TickEnums :
      /\ now + dt <= MaxTime
      /\ \E filtered \in {IF ce.enum.ok THEN Filtered(config, ce.enum.drives) ELSE <<>>} :
         \E probes \in [1..Len(filtered) -> ProbeResults] :
         \E ds \in {refresh_drives(config, drives, ce.enum, probes)} :
         \E skew \in SkewsFor(ds, alert_states) :
         \E r \in {check_alerts(config, ds, alert_states, now + dt, skew)} :
         \E g \in {TrackFold(track, <<>>, r.evals, 1, now + dt, config.alert_cooldown)} :
         \E outcomes \in [1..Len(r.alerts) -> BOOLEAN] :
         \E s \in {SendAll(r.alerts, outcomes, 1, r.states)} :
           /\ now' = now + dt
           /\ drives' = ds
           /\ lastGood' = IF ce.enum.ok THEN ds ELSE lastGood
           /\ alert_states' = s.states
           /\ track' = g.track
           /\ tick' = [msg |-> "Tick", enum |-> ce.enum, probes |-> probes, evals |-> r.evals,
                       alerts |-> r.alerts, sent |-> s.log, pairs |-> g.pairs]
           /\ UNCHANGED config

\* Message::ToggleDriveAlert(mount, enabled)
ToggleDriveAlert ==
    \E mount \in EditPaths, enabled \in BOOLEAN :
      LET alert_config == get_drive_alert(config, mount) IN
      /\ config' = [config EXCEPT
                      !.drive_alerts[mount] = Entry(enabled, alert_config.threshold)]
      /\ tick' = [NoMessage EXCEPT !.msg = "ToggleDriveAlert"]
      /\ UNCHANGED <<drives, alert_states, now, track, lastGood>>

\* Message::SetDriveThreshold(mount, threshold)
SetDriveThreshold ==
    \E mount \in EditPaths, threshold \in Thresholds :
      LET alert_config == get_drive_alert(config, mount) IN
      /\ config' = [config EXCEPT
                      !.drive_alerts[mount] = Entry(alert_config.enabled, threshold)]
      /\ tick' = [NoMessage EXCEPT !.msg = "SetDriveThreshold"]
      /\ UNCHANGED <<drives, alert_states, now, track, lastGood>>

\* Message::ConfigChanged(config)
ConfigChanged ==
    \E cfg \in Configs :
      /\ config' = cfg
      /\ tick' = [NoMessage EXCEPT !.msg = "ConfigChanged"]
      /\ UNCHANGED <<drives, alert_states, now, track, lastGood>>

\* the parts of the state a specification does not use
NoSpace == [ran |-> FALSE, ok |-> FALSE,
            space |-> [total |-> 0, used |-> 0, available |-> 0], percent |-> 0]

NoEnumeration == catalog = ConnectionError /\ enumerated = NotRun
NoDeduplication == ddIn = <<>> /\ ddOut = NotRun /\ ddAgain = NotRun
NoNaming == nameIn = Info(P_root, D_A) /\ nameOut = None
NoProbe == statIn = StatvfsError /\ spaceOut = NoSpace

Init ==
    /\ AppInit
    /\ NoEnumeration
    /\ NoDeduplication
    /\ NoNaming
    /\ NoProbe

Next ==
    \/ Tick /\ UNCHANGED <<enumVars, ddVars, nameVars, spaceVars>>
    \/ ToggleDriveAlert /\ UNCHANGED <<enumVars, ddVars, nameVars, spaceVars>>
    \/ SetDriveThreshold /\ UNCHANGED <<enumVars, ddVars, nameVars, spaceVars>>
    \/ ConfigChanged /\ UNCHANGED <<enumVars, ddVars, nameVars, spaceVars>>

Spec == Init /\ [][Next]_vars

(***************************************************************************)
(* enumerate_drives alone, on every catalog of at most MaxObjects objects. *)
(***************************************************************************)
Idle ==
    /\ config = CHOOSE c \in Configs : c.alert_cooldown = 2
    /\ drives = <<>>
    /\ alert_states = [p \in AppPaths |-> Absent]
    /\ now = 0
    /\ tick = NoMessage
    /\ track = [p \in AppPaths |-> NoTrack]
    /\ lastGood = <<>>

EnumCatalogs ==
    {ConnectionError} \cup {Catalog((s)) : s \in IndexSeqs(MaxObjects)}

InitEnum ==
    /\ Idle
    /\ catalog \in EnumCatalogs
    /\ enumerated = NotRun
    /\ NoDeduplication
    /\ NoNaming
    /\ NoProbe

Enumerate ==
    /\ ~enumerated.ran
    /\ enumerated' = Ran(enumerate_drives([ok |-> catalog.ok, objects |-> Objects(catalog)]))
    /\ UNCHANGED <<catalog, appVars, ddVars, nameVars, spaceVars>>

NextEnum == Enumerate

SpecEnum == InitEnum /\ [][NextEnum]_vars

(***************************************************************************)
(* deduplicate_by_device alone, on every list of at most MaxLen entries,   *)
(* and then on the list it left.                                           *)
(***************************************************************************)
InitDedup ==
    /\ Idle
    /\ NoEnumeration
    /\ ddIn \in ListsUpTo(DedupInfos, MaxLen)
    /\ ddOut = NotRun
    /\ ddAgain = NotRun
    /\ NoNaming
    /\ NoProbe

Deduplicate ==
    /\ ~ddOut.ran
    /\ ddOut' = [ran |-> TRUE, ok |-> TRUE, drives |-> deduplicate_by_device(ddIn)]
    /\ UNCHANGED <<ddIn, ddAgain, appVars, enumVars, nameVars, spaceVars>>

Rededuplicate ==
    /\ ddOut.ran
    /\ ~ddAgain.ran
    /\ ddAgain' = [ran |-> TRUE, ok |-> TRUE, drives |-> deduplicate_by_device(ddOut.drives)]
    /\ UNCHANGED <<ddIn, ddOut, appVars, enumVars, nameVars, spaceVars>>

NextDedup ==
    \/ Deduplicate
    \/ Rededuplicate

SpecDedup == InitDedup /\ [][NextDedup]_vars

(***************************************************************************)
(* display_name alone, on a DriveInfo of each kind it distinguishes.       *)
(***************************************************************************)
P_hom == <<"/","h","o","m">>
P_homeu == <<"/","h","o","m","e","/","u">>
P_mntSlash == <<"/","m","n","t","/","x","/">>
P_rel == <<"x">>
P_bad == <<"/","m","n","t","/",BAD>>
P_homebad == <<"/","h","o","m","e","/",BAD>>

NamePaths == {P_root, P_home, P_homex, P_homeu, P_hom, P_var, P_mnt, P_mntSlash,
              P_rel, P_bad, P_homebad}
NameLabels == {None, Some(<<>>), Some(L_data)}
NameDevices == {D_A, D_B}
NameInfos ==
    {[Info(p, d) EXCEPT !.label = l] : p \in NamePaths, l \in NameLabels, d \in NameDevices}

InitName ==
    /\ Idle
    /\ NoEnumeration
    /\ NoDeduplication
    /\ nameIn \in NameInfos
    /\ nameOut = None
    /\ NoProbe

DisplayName ==
    /\ ~nameOut.some
    /\ nameOut' = Some(display_name(nameIn))
    /\ UNCHANGED <<nameIn, appVars, enumVars, ddVars, spaceVars>>

NextName == DisplayName

SpecName == InitName /\ [][NextName]_vars

(***************************************************************************)
(* get_space_info and percent_used alone, on every statvfs answer of at    *)
(* most MaxBlocks blocks.                                                  *)
(***************************************************************************)
BlockSizes == {1, 100}

StatInputs ==
    {StatvfsError} \cup
    {Statvfs(bs, blocks, bfree, bavail) :
        bs \in BlockSizes, blocks \in 0..MaxBlocks, bfree \in 0..MaxBlocks,
        bavail \in {0}}

InitSpace ==
    /\ Idle
    /\ NoEnumeration
    /\ NoDeduplication
    /\ NoNaming
    /\ statIn \in StatInputs
    /\ spaceOut = NoSpace

ProbeSpace ==
    /\ ~spaceOut.ran
    /\ LET r == get_space_info(statIn) IN
       spaceOut' = [ran |-> TRUE, ok |-> r.ok, space |-> r.space,
                    percent |-> percent_used(r.space)]
    /\ UNCHANGED <<statIn, appVars, enumVars, ddVars, nameVars>>

NextSpace == ProbeSpace

SpecSpace == InitSpace /\ [][NextSpace]_vars

(***************************************************************************)
(* Properties of check_alerts.  They are stated of a step of Tick: the     *)
(* unprimed alert_states is the map the handler starts with, tick' holds   *)
(* what the handler saw and sent, and the primed variables what it left.   *)
(***************************************************************************)
TickStep == tick'.msg = "Tick"

\* the indices of the drive list whose alert configuration is enabled, in order
RECURSIVE EnabledIndices(_, _, _)
EnabledIndices(cfg, ds, i) ==
    IF i > Len(ds) THEN <<>>
    ELSE (IF get_drive_alert(cfg, ds[i].info.mount_point).enabled THEN <<i>> ELSE <<>>)
         \o EnabledIndices(cfg, ds, i + 1)

\* The alert state evaluation k of a tick started from: what the latest
\* earlier evaluation of the same path in the tick left, else the entry of
\* the map before the tick.
EarlierSame(evals, k) == {j \in 1..(k - 1) : evals[j].path = evals[k].path}
Max(S) == CHOOSE x \in S : \A y \in S : y <= x
PreState(states, evals, k) ==
    IF EarlierSame(evals, k) # {}
    THEN [present |-> TRUE,
          last_alerted |-> evals[Max(EarlierSame(evals, k))].last_after,
          was_over_threshold |-> evals[Max(EarlierSame(evals, k))].was_after]
    ELSE states[evals[k].path]

\* every enabled drive of the list is evaluated once, in list order, with
\* its own usage and the threshold configured for its path
EvaluatedEnabled ==
    \E idx \in {EnabledIndices(config, drives', 1)} :
      /\ Len(tick'.evals) = Len(idx)
      /\ \A k \in 1..Len(idx) :
           \E e \in {tick'.evals[k]}, d \in {drives'[idx[k]]} :
             /\ e.idx = idx[k]
             /\ e.path = d.info.mount_point
             /\ e.pct = percent_used(d.space)
             /\ e.threshold = get_drive_alert(config, e.path).threshold

\* the alerts sent are those of the evaluations that fired, in order
RECURSIVE FiredAlerts(_, _, _)
FiredAlerts(evals, ds, k) ==
    IF k > Len(evals) THEN <<>>
    ELSE (IF evals[k].fired
          THEN <<[name |-> display_name(ds[evals[k].idx].info), pct |-> evals[k].pct]>>
          ELSE <<>>)
         \o FiredAlerts(evals, ds, k + 1)

\* the map after the tick holds, for each evaluated path, what its last
\* evaluation left, and is otherwise as before
StatesWritten ==
    \A p \in AppPaths :
      LET ks == {k \in 1..Len(tick'.evals) : tick'.evals[k].path = p} IN
      IF ks = {} THEN alert_states'[p] = alert_states[p]
      ELSE alert_states'[p] = [present |-> TRUE,
                               last_alerted |-> tick'.evals[Max(ks)].last_after,
                               was_over_threshold |-> tick'.evals[Max(ks)].was_after]

\* C1: in check_alerts, every mount of the current drive list whose alert
\* configuration is enabled emits an alert (display_name, percent_used) if
\* and only if over && (crossed || cooldown_expired), with
\* over = percent_used >= threshold, crossed = over && !was_over_threshold
\* and cooldown_expired = (now - last_alerted) >= cooldown for an existing
\* entry; and whenever it alerts, last_alerted of the mount is the tick's now.
C1Step ==
    /\ EvaluatedEnabled
    /\ tick'.alerts = FiredAlerts(tick'.evals, drives', 1)
    /\ StatesWritten
    /\ \A k \in 1..Len(tick'.evals) :
         \E e \in {tick'.evals[k]}, pre \in {PreState(alert_states, tick'.evals, k)} :
           LET over == e.pct >= e.threshold
               crossed == over /\ (pre.present => ~pre.was_over_threshold)
               cooldown_expired ==
                   pre.present => (now' - pre.last_alerted) >= config.alert_cooldown
           IN /\ e.fired <=> (over /\ (crossed \/ cooldown_expired))
              /\ e.fired => e.last_after = now'

Thm_C1 == [][TickStep => C1Step]_vars

\* an alert at exactly the threshold, on an entry that was already over
\* threshold and whose cooldown has expired
Wit_C1 ==
    /\ tick.msg = "Tick"
    /\ \E k \in 1..Len(tick.evals) :
         /\ tick.evals[k].fired
         /\ tick.evals[k].pct = tick.evals[k].threshold
         /\ tick.evals[k].existed
         /\ tick.evals[k].was_before
         /\ config.alert_cooldown > 0
         /\ now - tick.evals[k].last_before >= config.alert_cooldown
         /\ alert_states[tick.evals[k].path].last_alerted = now

\* C2: entry into the over-threshold region fires at once: an enabled
\* evaluation that finds the mount over threshold while its path has no
\* AlertState yet, or has was_over_threshold false, alerts in that same tick,
\* however little time has passed since the last alert of the mount.
C2Step ==
    \A k \in 1..Len(tick'.evals) :
      LET e == tick'.evals[k]
          pre == PreState(alert_states, tick'.evals, k)
      IN (e.pct >= e.threshold /\ (~pre.present \/ ~pre.was_over_threshold))
         => /\ e.fired
            /\ \E a \in 1..Len(tick'.alerts) :
                 tick'.alerts[a] = [name |-> display_name(drives'[e.idx].info),
                                    pct |-> e.pct]

Thm_C2 == [][TickStep => C2Step]_vars

\* a re-crossing that alerts although less than the cooldown has passed
\* since the last alert of the path
Wit_C2 ==
    /\ tick.msg = "Tick"
    /\ \E k \in 1..Len(tick.evals) :
         /\ tick.evals[k].fired
         /\ tick.evals[k].existed
         /\ ~tick.evals[k].was_before
         /\ now - tick.evals[k].last_before < config.alert_cooldown
         /\ \E q \in 1..Len(tick.pairs) : tick.pairs[q].path = tick.evals[k].path

C4Step ==
    /\ \A p \in AppPaths :
         ~get_drive_alert(config, p).enabled =>
           /\ alert_states'[p] = alert_states[p]
           /\ TickStep =>
                /\ \A k \in 1..Len(tick'.evals) : tick'.evals[k].path # p
                /\ Len(tick'.alerts) =
                     Cardinality({k \in 1..Len(tick'.evals) : tick'.evals[k].fired})
    /\ ~TickStep => alert_states' = alert_states

Thm_C4 == [][C4Step]_vars

\* a tick that met a disabled mount over its threshold and left its
\* AlertState at was_over_threshold false
Wit_C4 ==
    /\ tick.msg = "Tick"
    /\ \E i \in 1..Len(drives) :
         LET p == drives[i].info.mount_point IN
         /\ ~get_drive_alert(config, p).enabled
         /\ percent_used(drives[i].space) >= get_drive_alert(config, p).threshold
         /\ alert_states[p].present
         /\ ~alert_states[p].was_over_threshold

\* C5: after every enabled evaluation of a mount, was_over_threshold is the
\* value of over of that evaluation, whether or not it alerted (below
\* threshold it becomes false and nothing is sent), and an evaluation that
\* does not alert leaves last_alerted as it was.
C5Step ==
    /\ StatesWritten
    /\ \A k \in 1..Len(tick'.evals) :
         LET e == tick'.evals[k]
             pre == PreState(alert_states, tick'.evals, k)
         IN /\ e.was_after = (e.pct >= e.threshold)
            /\ e.pct < e.threshold => ~e.fired
            /\ (~e.fired /\ pre.present) => e.last_after = pre.last_alerted

Thm_C5 == [][TickStep => C5Step]_vars

\* an evaluation below threshold of a path that was over threshold: no
\* alert, was_over_threshold false, last_alerted kept
Wit_C5 ==
    /\ tick.msg = "Tick"
    /\ \E k \in 1..Len(tick.evals) :
         LET e == tick.evals[k] IN
         /\ e.existed /\ e.was_before /\ ~e.fired
         /\ e.pct < e.threshold
         /\ ~alert_states[e.path].was_over_threshold
         /\ alert_states[e.path].last_alerted = e.last_before
         /\ e.last_before < now

\* C15: the alerts of a tick are collected in drive-list order and given
\* to the notifier in that order, after the alert state of every mount has
\* been updated for the tick; a delivery that fails changes no AlertState
\* (last_alerted of the mount stays at the now of the tick) and the alerts
\* after it are still delivered.
C15Step ==
    LET fired == SelectSeq(tick'.evals, LAMBDA e : e.fired) IN
    /\ Len(tick'.sent) = Len(fired)
    /\ \A k \in 1..Len(fired) :
         /\ tick'.sent[k].name = display_name(drives'[fired[k].idx].info)
         /\ tick'.sent[k].pct = fired[k].pct
         /\ k > 1 => fired[k - 1].idx < fired[k].idx
         /\ tick'.sent[k].states = alert_states'
         /\ alert_states'[fired[k].path].last_alerted = now'
    /\ StatesWritten

Thm_C15 == [][TickStep => C15Step]_vars

\* two alerts in one tick: the delivery of the first failed, the second was
\* delivered, and the mount of the first has last_alerted at the tick's now
Wit_C15 ==
    /\ tick.msg = "Tick"
    /\ Len(tick.sent) = 2
    /\ ~tick.sent[1].ok
    /\ tick.sent[2].ok
    /\ tick.sent[1].name # tick.sent[2].name
    /\ \E k \in 1..Len(tick.evals) :
         /\ tick.evals[k].fired
         /\ display_name(drives[tick.evals[k].idx].info) = tick.sent[1].name
         /\ alert_states[tick.evals[k].path].last_alerted = now

\* C16: the alert configuration used for a mount path is the stored entry
\* of the path when there is one, and otherwise enabled with the current
\* default_alert_threshold: a mount without an entry is evaluated, against
\* the default threshold, and a mount with an entry is evaluated if and only
\* if the entry is enabled, against the threshold of the entry.
Thm_C16 ==
    tick.msg = "Tick" =>
      \A i \in 1..Len(drives) :
        LET entry == config.drive_alerts[drives[i].info.mount_point]
            ks == {k \in 1..Len(tick.evals) : tick.evals[k].idx = i}
        IN IF entry.present
           THEN /\ entry.enabled <=> ks # {}
                /\ \A k \in ks : tick.evals[k].threshold = entry.threshold
           ELSE /\ ks # {}
                /\ \A k \in ks : tick.evals[k].threshold = config.default_alert_threshold

\* a mount without an entry alerts at 50 percent under a default threshold
\* of 50
Wit_C16 ==
    /\ tick.msg = "Tick"
    /\ config.default_alert_threshold = 50
    /\ \E k \in 1..Len(tick.evals) :
         /\ ~config.drive_alerts[tick.evals[k].path].present
         /\ tick.evals[k].threshold = 50
         /\ tick.evals[k].pct = 50
         /\ tick.evals[k].fired

(***************************************************************************)
(* Properties of refresh_drives.                                           *)
(***************************************************************************)
\* C6: when the query of the device-management service fails during a
\* refresh, the refresh is given up and the stored drive list is the list
\* the last successful refresh produced: never cleared, never partly
\* replaced.
Thm_C6 == drives = lastGood

\* a tick whose enumeration failed, with a non-empty list kept
Wit_C6 ==
    /\ tick.msg = "Tick"
    /\ ~tick.enum.ok
    /\ drives # <<>>
    /\ drives = lastGood

\* C17: every alert of a Tick reports a percent_used probed during that
\* Tick: a Tick whose enumeration fails, the previous drive list being kept,
\* evaluates no alert against the kept usage values, sends no alert and
\* changes no AlertState.
C17Step ==
    /\ tick'.evals = <<>>
    /\ tick'.alerts = <<>>
    /\ alert_states' = alert_states

Cex_C17 == [][(TickStep /\ ~tick'.enum.ok) => C17Step]_vars

\* C8: a statvfs failure drops only that mount: after refresh_drives the
\* drive list holds exactly the filtered enumerated mounts whose probe
\* succeeded, in enumeration order, each with its own probe result.
Refreshed == tick.msg \in {"init", "Tick"} /\ tick.enum.ok

Thm_C8 ==
    Refreshed =>
      LET filtered == Filtered(config, tick.enum.drives)
          good == {k \in 1..Len(filtered) : tick.probes[k].ok}
          Rank(k) == Cardinality({j \in good : j <= k})
      IN /\ Len(drives) = Cardinality(good)
         /\ \A k \in good :
              /\ drives[Rank(k)].info = filtered[k]
              /\ drives[Rank(k)].space.total =
                   tick.probes[k].stat.blocks * tick.probes[k].stat.block_size
              /\ drives[Rank(k)].space.used =
                   (tick.probes[k].stat.blocks - tick.probes[k].stat.blocks_free)
                   * tick.probes[k].stat.block_size

\* the first of two mounts failed its probe and the second is in the list
Wit_C8 ==
    /\ tick.msg = "Tick"
    /\ tick.enum.ok
    /\ Len(tick.probes) = 2
    /\ ~tick.probes[1].ok
    /\ tick.probes[2].ok
    /\ Len(drives) = 1
    /\ drives[1].info = Filtered(config, tick.enum.drives)[2]

(***************************************************************************)
(* Properties of enumerate_drives and deduplicate_by_device.               *)
(***************************************************************************)
\* the DriveInfo records of the well-formed objects of a catalog, in order
RECURSIVE WellFormedDrives(_, _)
WellFormedDrives(objects, i) ==
    IF i > Len(objects) THEN <<>>
    ELSE (IF EnumObject(objects, objects[i]).step = "push"
          THEN EnumObject(objects, objects[i]).drives ELSE <<>>)
         \o WellFormedDrives(objects, i + 1)

\* C7: a malformed or missing property on one catalog object is a
\* per-object decode failure: enumeration passes over that object only and
\* still returns the DriveInfo records of every well-formed object of the
\* catalog; a filesystem object with mount points and a block interface whose
\* Device is missing or undecodable does not fail the whole enumeration.
Cex_C7 ==
    (enumerated.ran /\ catalog.ok) =>
      /\ enumerated.ok
      /\ enumerated.drives =
           deduplicate_by_device(WellFormedDrives(Objects(catalog), 1))

\* C9: deduplicate_by_device retains an entry if and only if it is itself
\* primary (mount path exactly "/" or with "/home" as a string prefix) or no
\* entry of the input with its device is primary; the retained entries keep
\* their relative order.
PrimaryPath(path) ==
    \/ Len(path) = 1 /\ path[1] = "/"
    \/ /\ Len(path) >= 5
       /\ path[1] = "/" /\ path[2] = "h" /\ path[3] = "o" /\ path[4] = "m" /\ path[5] = "e"

KeptIndices(input) ==
    {i \in 1..Len(input) :
       \/ PrimaryPath(input[i].mount_point)
       \/ ~\E j \in 1..Len(input) :
             input[j].device = input[i].device /\ PrimaryPath(input[j].mount_point)}

Thm_C9 ==
    ddOut.ran =>
      LET kept == KeptIndices(ddIn)
          Rank(i) == Cardinality({j \in kept : j <= i})
      IN /\ Len(ddOut.drives) = Cardinality(kept)
         /\ \A i \in kept : ddOut.drives[Rank(i)] = ddIn[i]

\* the four mounts / (a), /home (a), /var (a), /mnt/x (b): /var is dropped
\* and /mnt/x is kept, device b having no primary mount
Wit_C9 ==
    /\ ddOut.ran
    /\ ddIn = <<Info(P_root, D_A), Info(P_home, D_A), Info(P_var, D_A), Info(P_mnt, D_B)>>
    /\ ddOut.drives = <<Info(P_root, D_A), Info(P_home, D_A), Info(P_mnt, D_B)>>

\* C11: deduplication is idempotent: for every list of drive records,
\* deduplicate_by_device applied to its own output gives that output again.
Thm_C11 == ddAgain.ran => ddAgain.drives = ddOut.drives

\* a list the first application shortened and the second left as it was
Wit_C11 ==
    /\ ddAgain.ran
    /\ Len(ddOut.drives) < Len(ddIn)
    /\ Len(ddOut.drives) >= 2
    /\ \E i \in 1..Len(ddOut.drives) : ~IsPrimary(ddOut.drives[i].mount_point)
    /\ ddAgain.drives = ddOut.drives

\* C12: no DriveInfo that enumerate_drives returns has a filesystem type
\* equal to an entry of the exclusion list (tmpfs, devtmpfs, squashfs,
\* overlay, proc, sysfs, cgroup, cgroup2, ...), whatever the other properties
\* of the object; the match is string equality, so an object whose type only
\* starts with an excluded name is not rejected for its type.
NamedExcluded ==
    { <<"t","m","p","f","s">>, <<"d","e","v","t","m","p","f","s">>,
      <<"s","q","u","a","s","h","f","s">>, <<"o","v","e","r","l","a","y">>,
      <<"p","r","o","c">>, <<"s","y","s","f","s">>,
      <<"c","g","r","o","u","p">>, <<"c","g","r","o","u","p","2">> }

\* a mounted block object, its Device readable, whose type has an excluded
\* name as a proper prefix
PrefixOnly(o) ==
    /\ o.fs /\ o.block
    /\ get_mount_points(o.MountPoints) # <<>>
    /\ get_string_prop(o.Device, "Device").ok
    /\ o.IdType.kind = "Str"
    /\ o.IdType.val \notin NamedExcluded \cup EXCLUDED_FS_TYPES
    /\ \E n \in NamedExcluded :
         Len(o.IdType.val) > Len(n) /\ SubSeq(o.IdType.val, 1, Len(n)) = n

Thm_C12 ==
    (enumerated.ran /\ enumerated.ok) =>
      /\ \A i \in 1..Len(enumerated.drives) :
           enumerated.drives[i].fs_type \notin NamedExcluded \cup EXCLUDED_FS_TYPES
      /\ \A k \in 1..Len(catalog.ids) :
           LET o == ObjectPool[catalog.ids[k]] IN
           LET dev == get_string_prop(o.Device, "Device").val IN
           (/\ PrefixOnly(o)
            /\ ~\E j \in 1..Len(enumerated.drives) :
                  /\ enumerated.drives[j].device = dev
                  /\ PrimaryPath(enumerated.drives[j].mount_point))
           => \E i \in 1..Len(enumerated.drives) :
                /\ enumerated.drives[i].fs_type = o.IdType.val
                /\ enumerated.drives[i].device = dev

\* a catalog holding a tmpfs object and an object of type "tmpfsx": only
\* the second is returned
Wit_C12 ==
    /\ enumerated.ran /\ enumerated.ok
    /\ Len(catalog.ids) = 2
    /\ \E k \in 1..2 : ObjectPool[catalog.ids[k]].IdType = Str(T_tmpfs)
    /\ Len(enumerated.drives) = 1
    /\ enumerated.drives[1].fs_type = T_tmpfsx

\* C10: after the deduplication pass each mount path appears at most once
\* in the list enumerate_drives returns, whatever the catalog (two devices
\* reporting the same mount path, an object listing a mount point twice).
Cex_C10 ==
    (enumerated.ran /\ enumerated.ok) =>
      \A i, j \in 1..Len(enumerated.drives) :
        enumerated.drives[i].mount_point = enumerated.drives[j].mount_point => i = j

(***************************************************************************)
(* Properties of display_name.                                             *)
(***************************************************************************)
\* the text after the last "/" of a path, the whole path when it has none
FinalSegment(path) ==
    LET slashes == {i \in 1..Len(path) : path[i] = "/"} IN
    IF slashes = {} THEN path
    ELSE SubSeq(path, Max(slashes) + 1, Len(path))

\* C13: display_name is a function of the DriveInfo alone and returns the
\* label if it is present and not empty; else "/" if the mount path is
\* exactly "/"; else "~" if the mount path starts with "/home"; else the
\* final segment of the mount path; else the device path.  The three rules
\* on the mount path are those of a path that is UTF-8 text, and the device
\* is what is left for a path that is not.
Thm_C13 ==
    nameOut.some =>
      LET path == nameIn.mount_point
          text == \A i \in 1..Len(path) : path[i] # BAD
          home == /\ Len(path) >= 5
                  /\ <<path[1], path[2], path[3], path[4], path[5]>> = <<"/","h","o","m","e">>
      IN nameOut.val =
           IF nameIn.label.some /\ Len(nameIn.label.val) > 0 THEN nameIn.label.val
           ELSE IF text /\ path = <<"/">> THEN <<"/">>
           ELSE IF text /\ home THEN <<"~">>
           ELSE IF text THEN FinalSegment(path)
           ELSE nameIn.device

\* /mnt/x with an empty label is named "x"
Wit_C13 ==
    /\ nameOut.some
    /\ nameIn.label = Some(<<>>)
    /\ nameIn.mount_point = P_mnt
    /\ nameOut.val = <<"x">>

(***************************************************************************)
(* Properties of get_space_info and percent_used.                          *)
(***************************************************************************)
\* C14: for every SpaceInfo the probe produces, used is total - free
\* clamped at 0 (so used <= total), percent_used is used / total * 100
\* rounded to an integer (a half rounds up) and lies in 0..100, and
\* percent_used is 0 when total is 0; total 1000 with 100 free gives used 900
\* and 90 percent.
Cex_C14 ==
    (spaceOut.ran /\ spaceOut.ok) =>
      LET total == statIn.stat.blocks * statIn.stat.block_size
          free == statIn.stat.blocks_free * statIn.stat.block_size
          used == IF free <= total THEN total - free ELSE 0
          pct == spaceOut.percent
      IN /\ spaceOut.space.total = total
         /\ spaceOut.space.used = used
         /\ spaceOut.space.used <= spaceOut.space.total
         /\ pct \in 0..100
         /\ total = 0 => pct = 0
         /\ total > 0 => /\ 2 * total * pct <= 200 * used + total
                         /\ 200 * used + total < 2 * total * (pct + 1)
         /\ (total = 1000 /\ free = 100) => (used = 900 /\ pct = 90)

====
